---- MODULE Spec2Model ----
(***************************************************************************)
(* foehnix: two-component mixture model fitted by EM.                      *)
(*                                                                         *)
(* The model follows src/foehnix/foehnix.py: Control.__init__ (validation  *)
(* of the configuration), Foehnix.__init__ (checks of the data frame, its  *)
(* regular index, data checks, dispatch to the fit, storing the result),   *)
(* the two EM drivers no_concomitant_fit and unreg_fit, predict and plot.  *)
(* Real numbers are carried on a fixed-point grid of 1/Scale; NaN is a     *)
(* value of its own.  foehnix.families, foehnix.iwls_logit, foehnix_filter,*)
(* the plotting and the standardization functions are not part of the      *)
(* sources at hand:                                                        *)
(* Family.theta / posterior / density, iwls_logit, the classes of the      *)
(* filter and the units of the coefficients are modelled from the          *)
(* specification text, Family.loglik is an arbitrary value of the grid (or *)
(* NaN) chosen in every iteration.                                         *)
(***************************************************************************)
EXTENDS Integers, Sequences, FiniteSets, TLC

(* ---------------------------- bounds ---------------------------------- *)
\* resolution of the fixed-point grid: 1.0 is Scale grid units
Scale == 2
\* number of rows of the data frame; all of them are observations that are
\* left after filtering unless the frame has gaps, NaN or filtered rows
YLen == 3
\* predictor values are 0..YMax
YMax == 2
\* Family.loglik returns a value of 0..LLMax grid units, or NaN
LLMax == 2
\* largest iteration limit that is tried
MaxitMax == 3
\* iterations the model follows when the limit is off or is never met
MaxIter == 3
\* finite censoring / truncation points are 0..BoundMax
BoundMax == 1
\* the rows of a data frame have their timestamps in 0..TMax
TMax == 6
NewLen == 5

(* ------------------------ numbers with NaN ----------------------------- *)
Num(n) == [nan |-> FALSE, v |-> n]
NaN == [nan |-> TRUE, v |-> 0]

IsNaN(a) == a.nan

\* float comparison a > b: False as soon as one side is NaN
Gt(a, b) == (~a.nan) /\ (~b.nan) /\ a.v > b.v

\* float subtraction a - b: NaN as soon as one side is NaN
Sub(a, b) == IF a.nan \/ b.nan THEN NaN ELSE Num(a.v - b.v)

Abs(n) == IF n < 0 THEN -n ELSE n
Max(a, b) == IF a >= b THEN a ELSE b

\* n / d rounded to the nearest integer (d > 0, n >= 0)
RoundDiv(n, d) == (2 * n + d) \div (2 * d)

RECURSIVE SumSeq(_)
SumSeq(s) == IF s = <<>> THEN 0 ELSE Head(s) + SumSeq(Tail(s))

(* ------------------- extended reals for left / right ------------------- *)
\* inf = -1 is -Inf, inf = 1 is +Inf, inf = 0 is the finite value v
Fin(n) == [inf |-> 0, v |-> n]
NegInf == [inf |-> -1, v |-> 0]
PosInf == [inf |-> 1, v |-> 0]

IsFinite(a) == a.inf = 0

\* a >= b on the extended reals
GeExt(a, b) ==
    IF a.inf # b.inf THEN a.inf > b.inf
    ELSE IF a.inf # 0 THEN TRUE
    ELSE a.v >= b.v

\* a < b on the extended reals
LtExt(a, b) == ~GeExt(a, b)

ExtValues == {NegInf, PosInf} \cup {Fin(n) : n \in 0..BoundMax}

\* a list element that is no number (a string, None)
NotNumber == [inf |-> 2, v |-> 0]

(* ------------------------- Control.__init__ ---------------------------- *)
\* Values a caller can pass.  switch: 'True' / 'False' are the two bools,
\* 'None' is any value that is no bool.  verbose: True, False, 'DEBUG' or
\* something else.  family: a name, or an instance of foehnix.Family.
SwitchValues == {"True", "False", "None"}
VerboseValues == {"True", "False", "DEBUG", "other"}
FamilyValues == {"gaussian", "logistic", "FamilyObject", "other"}

\* maxit: an int, a float, or a list; a list element is a finite number or
\* inf.  tol: a float (grid units), an int, or a list of numbers.
MaxitValues ==
    {[kind |-> "int", vals |-> <<Fin(k)>>] : k \in -1..MaxitMax}
    \cup {[kind |-> "float", vals |-> <<Fin(1)>>]}
    \cup {[kind |-> "list", vals |-> v] :
            v \in {<<Fin(1)>>, <<Fin(0), Fin(2)>>, <<Fin(2), Fin(0)>>,
                   <<Fin(1), PosInf>>, <<Fin(1), Fin(2), Fin(3)>>,
                   <<NotNumber, NotNumber>>}}

TolValues ==
    {[kind |-> "float", vals |-> <<t>>] : t \in {0, 1, Scale}}
    \cup {[kind |-> "int", vals |-> <<0>>]}
    \cup {[kind |-> "list", vals |-> v] :
            v \in {<<1>>, <<0, 1>>, <<1, 0>>, <<0, 1, 1>>}}

\* isinstance(switch, bool)                                     (line 79)
IsBool(sw) == sw \in {"True", "False"}

\* the verbose levels that set a logging level                (lines 83-90)
VerboseOk(vb) == vb \in {"True", "False", "DEBUG"}

\* lines 100-105: the limits are compared only when one of them is finite
LimitsRaise(left, right) ==
    (IsFinite(left) \/ IsFinite(right)) /\ GeExt(left, right)

\* lines 108-115: a Family instance or one of the two names is accepted
FamilyOk(fam) == fam \in {"FamilyObject", "gaussian", "logistic"}

\* lines 108-112: self.family is assigned only in the branch of the two
\* names; with a Family instance the attribute is never set
FamilyAttr(fam) ==
    IF fam = "FamilyObject" THEN "unset" ELSE fam

\* line 125: np.isfinite of a sequence of two elements that are no numbers
\* raises a TypeError of its own
MaxitTypeError(mx) ==
    /\ mx.kind = "list"
    /\ Len(mx.vals) = 2
    /\ \E k \in 1..2 : mx.vals[k] = NotNumber

\* lines 122-129
MaxitOk(mx) ==
    \/ mx.kind = "int"
    \/ /\ mx.kind = "list"
       /\ Len(mx.vals) = 2
       /\ \A k \in 1..2 : IsFinite(mx.vals[k])

MaxitEm(mx) == mx.vals[1].v
MaxitIwls(mx) == IF mx.kind = "int" THEN mx.vals[1].v ELSE mx.vals[2].v

\* lines 139-146
TolOk(tl) ==
    \/ tl.kind = "float"
    \/ tl.kind = "list" /\ Len(tl.vals) = 2

TolEm(tl) == tl.vals[1]
TolIwls(tl) == IF tl.kind = "float" THEN tl.vals[1] ELSE tl.vals[2]

\* lines 130-137: the messages logged at level critical
ControlWarnings(mx) ==
    (IF MaxitEm(mx) = 0 THEN {"maxit_em_off"} ELSE {})
    \cup (IF MaxitIwls(mx) = 0 THEN {"maxit_iwls_off"} ELSE {})

\* The first check of Control.__init__ that raises, in the order of the
\* code, or "none".
ControlError(a) ==
    IF ~IsBool(a.switch) THEN "ValueError:switch"
    ELSE IF ~VerboseOk(a.verbose) THEN "ValueError:verbose"
    ELSE IF LimitsRaise(a.left, a.right) THEN "ValueError:limits"
    ELSE IF ~FamilyOk(a.family) THEN "ValueError:family"
    ELSE IF MaxitTypeError(a.maxit) THEN "TypeError:maxit"
    ELSE IF ~MaxitOk(a.maxit) THEN "ValueError:maxit"
    ELSE IF ~TolOk(a.tol) THEN "ValueError:tol"
    ELSE "none"

\* messages logged before Control.__init__ returns or raises: the maxit
\* messages come after the maxit check and before the tol check
ControlLogged(a) ==
    IF ControlError(a) \in {"none", "ValueError:tol"}
    THEN ControlWarnings(a.maxit) ELSE {}

\* the attributes of the Control object                      (lines 111-153)
ControlObject(a) ==
    [family |-> FamilyAttr(a.family),
     maxit_em |-> MaxitEm(a.maxit),
     maxit_iwls |-> MaxitIwls(a.maxit),
     tol_em |-> TolEm(a.tol),
     tol_iwls |-> TolIwls(a.tol),
     switch |-> (a.switch = "True"),
     left |-> a.left,
     right |-> a.right,
     truncated |-> a.truncated,
     standardize |-> a.standardize,
     force_inflate |-> a.force_inflate]

NoControl == [family |-> "none"]

(* ---------------------- Family (foehnix.families) ---------------------- *)
\* Observations y are integers; weights, posteriors and parameters are
\* grid numbers (Num, in units of 1/Scale) or NaN.  A prior probability is
\* the exact fraction num / den, or NaN.
Frac(n, d) == [nan |-> FALSE, num |-> n, den |-> d]
FracNaN == [nan |-> TRUE, num |-> 0, den |-> 1]

AnyNaN(w) == \E k \in 1..Len(w) : w[k].nan

\* sum of the grid values of w (no entry NaN)
GridSum(w) == SumSeq([k \in 1..Len(w) |-> w[k].v])

\* 1 - w, elementwise
Complement(w) ==
    [k \in 1..Len(w) |-> IF w[k].nan THEN NaN ELSE Num(Scale - w[k].v)]

\* weighted mean of y: sum(w * y) / sum(w); 0/0 is NaN
WeightedMean(y, w) ==
    IF AnyNaN(w) \/ GridSum(w) = 0 THEN NaN
    ELSE Num(RoundDiv(Scale * SumSeq([k \in 1..Len(y) |-> w[k].v * y[k]]),
                      GridSum(w)))

\* weighted spread of y around mu: sum(w * |y - mu|) / sum(w)
WeightedSpread(y, w, mu) ==
    IF AnyNaN(w) \/ mu.nan \/ GridSum(w) = 0 THEN NaN
    ELSE Num(RoundDiv(SumSeq([k \in 1..Len(y) |->
                                 w[k].v * Abs(Scale * y[k] - mu.v)]),
                      GridSum(w)))

\* Family.theta(y, weights): location and scale of the two components, the
\* weights being post for component 2 and 1 - post for component 1.  In
\* init mode the weights are the hard split z.
FamilyTheta(y, w) ==
    LET mu1 == WeightedMean(y, Complement(w))
        mu2 == WeightedMean(y, w)
    IN [mu1 |-> mu1,
        logsd1 |-> WeightedSpread(y, Complement(w), mu1),
        mu2 |-> mu2,
        logsd2 |-> WeightedSpread(y, w, mu2)]

\* the parameter names of a family: theta.keys()
ThetaKeys == {"mu1", "logsd1", "mu2", "logsd2"}

\* Family.density(y, location, scale) on the grid: a density with bounded
\* support, (W - |y - mu|) / W^2 inside the half-width W and 0 outside; the
\* logistic family has the heavier tails.
HalfWidth(fam, sd) ==
    IF fam = "logistic" THEN 2 * Scale + 2 * sd ELSE 2 * Scale + sd

\* numerator of the density, W - |y - mu| or 0
DensityNum(fam, yv, mu, sd) ==
    Max(0, HalfWidth(fam, sd) - Abs(Scale * yv - mu))

\* Family.posterior(y, prior, theta) for one observation:
\* prior * d2 / (prior * d2 + (1 - prior) * d1), 0 when both densities are 0
PosteriorAt(fam, yv, prior, theta) ==
    IF prior.nan \/ theta.mu1.nan \/ theta.mu2.nan
         \/ theta.logsd1.nan \/ theta.logsd2.nan
    THEN NaN
    ELSE LET w1 == HalfWidth(fam, theta.logsd1.v)
             w2 == HalfWidth(fam, theta.logsd2.v)
             a == prior.num
                  * DensityNum(fam, yv, theta.mu2.v, theta.logsd2.v) * w1 * w1
             b == (prior.den - prior.num)
                  * DensityNum(fam, yv, theta.mu1.v, theta.logsd1.v) * w2 * w2
         IN IF a + b = 0 THEN Num(0) ELSE Num(RoundDiv(Scale * a, a + b))

\* prob is a sequence of priors: of length 1 when it is the scalar of a fit
\* without concomitants, else with one prior per observation
PriorAt(prob, k) == IF Len(prob) = 1 THEN prob[1] ELSE prob[k]

FamilyPosterior(fam, y, prob, theta) ==
    [k \in 1..Len(y) |-> PosteriorAt(fam, y[k], PriorAt(prob, k), theta)]

\* Family.loglik(y, post, prob, theta)['full'] is not computed on the grid:
\* it is NaN when an argument is NaN and otherwise any value of LLValues
LLValues == {Num(n) : n \in 0..LLMax} \cup {NaN}

ThetaHasNaN(theta) ==
    theta.mu1.nan \/ theta.mu2.nan \/ theta.logsd1.nan \/ theta.logsd2.nan

LoglikArgsNaN(post, theta) == AnyNaN(post) \/ ThetaHasNaN(theta)

\* np.mean(post)                                                (line 475)
MeanPost(post) ==
    IF AnyNaN(post) THEN FracNaN ELSE Frac(GridSum(post), Scale * Len(post))

(* ------------------ iwls_logit (foehnix.iwls_logit) -------------------- *)
\* The concomitant design has the Intercept and one covariate with the
\* values 0 and 1.  The logistic regression of the response w on such a
\* design is saturated: its fitted probability for an observation is the
\* mean response of the observations with the same covariate value.  beta
\* is carried as these two fitted probabilities; start is the beta the
\* solver was started from (<<>> without warm start).  The solver is told
\* by standardize whether to standardize the design itself; the units of
\* its coefficients are those of the columns of the design it is given
\* (standardizing a standardized design changes nothing).
GroupMean(x, w, g) ==
    LET idx == {k \in 1..Len(x) : x[k] = g}
    IN IF AnyNaN(w) \/ idx = {} THEN FracNaN
       ELSE Frac(SumSeq([k \in 1..Len(x) |-> IF x[k] = g THEN w[k].v ELSE 0]),
                 Scale * Cardinality(idx))

IwlsLogit(logitx, w, beta0, standardize) ==
    [beta |-> <<GroupMean(logitx.values, w, 0), GroupMean(logitx.values, w, 1)>>,
     start |-> beta0,
     standardize |-> standardize,
     units |-> IF logitx.is_standardized THEN "standardized" ELSE "original"]

\* logistic.cdf(logitx['values'].dot(ccmodel['beta']))       (lines 561, 591)
FittedProb(logitx, ccmodel) ==
    [k \in 1..Len(logitx.values) |-> ccmodel.beta[logitx.values[k] + 1]]

NoCcmodel ==
    [beta |-> <<>>, start |-> <<>>, standardize |-> FALSE, units |-> "none"]

(* ------------------------------ state ---------------------------------- *)
VARIABLES
    args,      \* the arguments of Foehnix(...) that reach Control
    frame,     \* the data frame: timestamps, kind of each row, columns
    data,      \* the retained observations: predictor y, covariate x
    pc,        \* position: start, control, fit, loop, fitted, done, raised
    err,       \* the exception that ended the call, or "none"
    logged,    \* messages logged at level critical
    control,   \* the Control object, NoControl before it exists
    self,      \* attributes of the Foehnix object
    fit,       \* locals of no_concomitant_fit / unreg_fit
    call       \* the last call of predict or plot and how it ended

vars == <<args, frame, data, pc, err, logged, control, self, fit, call>>

HasConcomitant == data.x # <<>>

NoFit ==
    [z |-> <<>>, theta |-> <<>>, prob |-> <<>>, post |-> <<>>,
     ccmodel |-> NoCcmodel, i |-> 0, delta |-> Num(0), converged |-> TRUE,
     llpath |-> <<>>, coefpath |-> <<>>]

NoLogitx == [values |-> <<>>, is_standardized |-> FALSE]

NoOptimizer == [iter |-> -1]

NoCoef == [beta |-> <<>>, units |-> "none", destandardized |-> FALSE]

NoPredictions == [columns |-> {}, rows |-> <<>>]

NoSelf ==
    [data_copied |-> FALSE, index_type |-> "none", index |-> <<>>,
     logitx |-> NoLogitx,
     optimizer |-> NoOptimizer, stored |-> FALSE, coef |-> <<>>,
     concomitants |-> NoCoef, switch |-> "unset", inflated |-> -1,
     mu_se |-> "unset", prob |-> <<>>, predictions |-> NoPredictions]

\* no argument which
NoWhich == [kind |-> "none", names |-> <<>>]

NoCall ==
    [method |-> "none", returntype |-> "none",
     newdata |-> [given |-> FALSE, kinds |-> <<>>, y |-> <<>>, x |-> <<>>,
                  columns |-> {}],
     which |-> NoWhich, raised |-> "none"]

(* --------------------------- the data frame ---------------------------- *)
\* The data frame is described by the timestamps of its rows, the kind of
\* each row and the columns it has.  A row is of one of these kinds:
\*   take  predictor and concomitants are present, the filter calls it good
\*   nan   the predictor or a concomitant is NaN, the filter calls it good
\*   bad   the values are present, the filter calls it bad
\*   ugly  the values are present, the filter calls it ugly
\* and a row that regularizing the index inserts is of kind gap.  The
\* values of the rows of kind take are data.y and data.x, in the order of
\* the rows.
RowKinds == {"take", "nan", "bad", "ugly"}

\* self.data.index.is_monotonic_increasing                     (line 234)
IsMonotonic(times) ==
    \A k \in 1..(Len(times) - 1) : times[k] <= times[k + 1]

\* self.data.index.to_series().diff().min()                    (line 238)
MinDiff(times) ==
    LET diffs == {times[k + 1] - times[k] : k \in 1..(Len(times) - 1)}
    IN CHOOSE m \in diffs : \A v \in diffs : m <= v

\* self.data.asfreq(mindiff).index.size (line 239): the index runs from the
\* first timestamp in steps of mindiff as long as it does not pass the last
Inflated(times) == (times[Len(times)] - times[1]) \div MinDiff(times) + 1

\* self.data.asfreq(mindiff) (line 268), as the kinds of the rows of the
\* regular index: a row of the frame that is on the index keeps its kind
Asfreq(fr) ==
    [j \in 1..Inflated(fr.times) |->
       LET t == fr.times[1] + (j - 1) * MinDiff(fr.times)
           hit == {k \in 1..Len(fr.times) : fr.times[k] = t}
       IN IF hit = {} THEN "gap" ELSE fr.kinds[CHOOSE k \in hit : TRUE]]

InflationStopsAtTwo(ctl, fr) ==
    /\ Inflated(fr.times) >= 2 * Len(fr.times)
    /\ ~ctl.force_inflate

\* line 242: inflated / lendata > 2 and control.force_inflate is False
InflationStops(ctl, fr) ==
    /\ Inflated(fr.times) > 2 * Len(fr.times)
    /\ ~ctl.force_inflate

\* subset.dropna().index (line 275): the rows without NaN
IdxNotNan(index) == {j \in 1..Len(index) : index[j] \in {"take", "bad", "ugly"}}

\* foehnix_filter(self.data, ...) (line 278): the rows of the regular index
\* in three disjoint classes; an inserted row has no values to filter on
FoehnixFilter(index) ==
    [good |-> {j \in 1..Len(index) : index[j] \in {"take", "nan"}},
     bad |-> {j \in 1..Len(index) : index[j] = "bad"},
     ugly |-> {j \in 1..Len(index) : index[j] \in {"ugly", "gap"}}]

\* idx_notnan[idx_notnan.isin(filter_obj['good'])]             (line 283)
IdxTake(index) == IdxNotNan(index) \cap FoehnixFilter(index).good

\* The first check of lines 222-262 that raises, or "none"; reqx tells
\* whether a concomitant is requested
FrameError(ctl, fr, reqx) ==
    IF "predictor" \notin fr.columns THEN "ValueError:predictor"
    ELSE IF reqx /\ "concomitant" \notin fr.columns THEN "ValueError:concomitant"
    ELSE IF ~IsMonotonic(fr.times) THEN "RuntimeError:monotonic"
    ELSE IF InflationStops(ctl, fr) THEN "RuntimeError:inflate"
    ELSE "none"

(* ------------------------- Foehnix.__init__ ---------------------------- *)
\* lines 210-213: the arguments the Control object is built from.  Without a
\* Control of the caller it is Control(family, switch, **kwargs), with the
\* switch argument of Foehnix; a Control the caller passes has been built by
\* the caller, with a switch of its own
ControlArgs(a) ==
    IF a.control = "Control" THEN [a EXCEPT !.switch = a.control_switch] ELSE a

\* The Control object is built first: in Foehnix.__init__, or by the caller
\* who passes it
Control__init__ ==
    /\ pc = "start"
    /\ err' = ControlError(ControlArgs(args))
    /\ logged' = logged \cup ControlLogged(ControlArgs(args))
    /\ IF ControlError(ControlArgs(args)) = "none"
       THEN /\ control' = ControlObject(ControlArgs(args))
            /\ pc' = "control"
       ELSE /\ control' = control
            /\ pc' = "raised"
    /\ UNCHANGED <<args, frame, data, self, fit, call>>

SeqMin(s) == CHOOSE m \in {s[k] : k \in 1..Len(s)} : \A k \in 1..Len(s) : m <= s[k]
SeqMax(s) == CHOOSE m \in {s[k] : k \in 1..Len(s)} : \A k \in 1..Len(s) : m >= s[k]

\* nunique() == 1                                               (line 289)
IsConstant(s) == Cardinality({s[k] : k \in 1..Len(s)}) = 1

OutsideTruncationClosed(ctl, y) ==
    /\ ctl.truncated
    /\ \/ GeExt(ctl.left, Fin(SeqMin(y)))
       \/ GeExt(Fin(SeqMax(y)), ctl.right)

\* lines 325-326
OutsideTruncation(ctl, y) ==
    /\ ctl.truncated
    /\ \/ LtExt(Fin(SeqMin(y)), ctl.left)
       \/ LtExt(ctl.right, Fin(SeqMax(y)))

DataErrorNoConstant(ctl, d) ==
    IF Len(d.y) = 0 THEN "RuntimeError:nodata"
    ELSE IF OutsideTruncation(ctl, d.y) THEN "ValueError:truncation"
    ELSE "none"

\* The first data check of lines 284-331 that raises, or "none"
DataError(ctl, d) ==
    IF Len(d.y) = 0 THEN "RuntimeError:nodata"
    ELSE IF IsConstant(d.y) \/ (d.x # <<>> /\ IsConstant(d.x))
         THEN "RuntimeError:constant"
    ELSE IF OutsideTruncation(ctl, d.y) THEN "ValueError:truncation"
    ELSE "none"

\* lines 296-320: the design of the concomitant model; values holds the
\* covariate as the group of each row, which standardizing (an increasing
\* affine map of the column) keeps
Logitx(ctl, d) ==
    IF d.x = <<>> THEN NoLogitx
    ELSE [values |-> d.x, is_standardized |-> ctl.standardize]

\* lines 327-330: the message logged with the truncation error
DataLogged(ctl, d) ==
    IF DataError(ctl, d) = "ValueError:truncation" THEN {"truncation_range"} ELSE {}

\* The first check of lines 222-331 that raises, or "none"
PrepareError(ctl, fr, d) ==
    IF FrameError(ctl, fr, d.x # <<>>) # "none"
    THEN FrameError(ctl, fr, d.x # <<>>)
    ELSE DataError(ctl, d)

\* the messages logged at level critical in lines 222-331
PrepareLogged(ctl, fr, d) ==
    IF FrameError(ctl, fr, d.x # <<>>) = "RuntimeError:inflate" THEN {"inflation"}
    ELSE IF FrameError(ctl, fr, d.x # <<>>) = "none" THEN DataLogged(ctl, d)
    ELSE {}

\* pd.to_datetime(index) (line 232): an index of timestamps stays as it is,
\* one of date strings (dtype object) becomes an index of timestamps
ToDatetime(it) == IF it \in {"datetime", "object"} THEN "datetime" ELSE it

\* What lines 222-331 have assigned when they raise or pass on to the fit.
\* self.data: copied at line 229 once the columns are found, its index
\* converted at line 232, regular from line 268 on.  logitx: built and
\* standardized by lines 296-320, after the test for constant columns and
\* before the test of the truncation range, so that it exists when the
\* truncation error is raised
SelfAfterChecks(s, ctl, fr, d) ==
    LET e == FrameError(ctl, fr, d.x # <<>>)
    IN [s EXCEPT !.data_copied = e \notin {"ValueError:predictor",
                                           "ValueError:concomitant"},
                 !.index_type = IF e \in {"ValueError:predictor",
                                          "ValueError:concomitant"}
                                THEN s.index_type ELSE ToDatetime(fr.index_type),
                 !.index = IF e = "none" THEN Asfreq(fr) ELSE <<>>,
                 !.logitx = IF PrepareError(ctl, fr, d)
                                 \in {"none", "ValueError:truncation"}
                            THEN Logitx(ctl, d) ELSE s.logitx]

PrepareDataFirst ==
    /\ pc = "start"
    /\ ~self.data_copied
    /\ self' = [self EXCEPT !.data_copied = TRUE]
    /\ UNCHANGED <<args, frame, data, pc, err, logged, control, fit, call>>

PrepareDataInPlace ==
    /\ pc = "control"
    /\ err' = PrepareError(control, frame, data)
    /\ IF PrepareError(control, frame, data) = "none"
       THEN /\ pc' = "fit"
            /\ self' = [SelfAfterChecks(self, control, frame, data)
                          EXCEPT !.optimizer = NoOptimizer]
       ELSE /\ pc' = "raised"
            /\ self' = SelfAfterChecks(self, control, frame, data)
    /\ logged' = logged \cup PrepareLogged(control, frame, data)
    /\ frame' = IF SelfAfterChecks(self, control, frame, data).data_copied
                THEN [frame EXCEPT !.index_type = ToDatetime(frame.index_type)]
                ELSE frame
    /\ UNCHANGED <<args, data, control, fit, call>>

\* lines 215-336: copy of the data, checks, design matrix; ends with
\* self.optimizer = None.  The frame of the caller is left as it is: self.data
\* is a deep copy (line 229)
PrepareData ==
    /\ pc = "control"
    /\ err' = PrepareError(control, frame, data)
    /\ IF PrepareError(control, frame, data) = "none"
       THEN /\ pc' = "fit"
            /\ self' = [SelfAfterChecks(self, control, frame, data)
                          EXCEPT !.optimizer = NoOptimizer]
       ELSE /\ pc' = "raised"
            /\ self' = SelfAfterChecks(self, control, frame, data)
    /\ logged' = logged \cup PrepareLogged(control, frame, data)
    /\ UNCHANGED <<args, frame, data, control, fit, call>>

(* ------------- no_concomitant_fit / unreg_fit: before the loop --------- *)
\* lines 442-446 and 547-551: z = 1 where y <= mean(y) with switch, where
\* y >= mean(y) without
HardSplit(sw, y) ==
    LET total == SumSeq(y)
    IN [k \in 1..Len(y) |->
          IF sw THEN (IF Len(y) * y[k] <= total THEN 1 ELSE 0)
          ELSE (IF Len(y) * y[k] >= total THEN 1 ELSE 0)]

\* z as weights on the grid
AsWeights(z) == [k \in 1..Len(z) |-> Num(Scale * z[k])]

\* np.mean(z)                                                   (line 451)
MeanSplit(z) == Frac(SumSeq(z), Len(z))

\* the state of the fit when the loop is entered (lines 442-464, 547-575)
FitStart(ctl, d, logitx) ==
    LET z == HardSplit(ctl.switch, d.y)
        theta == FamilyTheta(d.y, AsWeights(z))
        ccmodel == IF d.x = <<>> THEN NoCcmodel
                   ELSE IwlsLogit(logitx, AsWeights(z), <<>>, FALSE)
        prob == IF d.x = <<>> THEN <<MeanSplit(z)>>
                ELSE FittedProb(logitx, ccmodel)
    IN [z |-> z,
        theta |-> theta,
        prob |-> prob,
        post |-> FamilyPosterior(ctl.family, d.y, prob, theta),
        ccmodel |-> ccmodel,
        i |-> 0,
        delta |-> Num(Scale),
        converged |-> TRUE,
        llpath |-> <<>>,
        coefpath |-> <<>>]

\* The fit function is entered and assigns the hard split z (lines 442-446,
\* 547-551); control.family.theta(...) then needs the attribute family
\* (lines 447, 552), and without it the call ends with z as its only local
FitInit ==
    /\ pc = "fit"
    /\ IF control.family = "unset"
       THEN /\ pc' = "raised"
            /\ err' = "AttributeError:family"
            /\ fit' = [fit EXCEPT !.z = HardSplit(control.switch, data.y)]
       ELSE /\ pc' = "loop"
            /\ err' = err
            /\ fit' = FitStart(control, data, self.logitx)
    /\ UNCHANGED <<args, frame, data, logged, control, self, call>>

(* ------------------------------ EM loop -------------------------------- *)
LoopConditionStrict(f, ctl) == ~f.delta.nan /\ f.delta.v >= ctl.tol_em

\* while delta > control.tol_em                            (lines 466, 577)
LoopCondition(f, ctl) == Gt(f.delta, Num(ctl.tol_em))

MaxitBreakNoGuard(f, ctl) == f.i = ctl.maxit_em

MaxitBreakOffByOne(f, ctl) == f.i > 0 /\ f.i + 1 = ctl.maxit_em

\* if (i > 0) and (i == control.maxit_em)                  (lines 468, 579)
MaxitBreak(f, ctl) == f.i > 0 /\ f.i = ctl.maxit_em

\* lines 489-491: only no_concomitant_fit tests the likelihood for NaN
RaisesOnNaN(hasConc) == ~hasConc

NextDeltaFromFirst(f, i, path) ==
    IF i > 1 THEN Sub(path[Len(path)], path[Len(path) - 1]) ELSE path[1]

\* lines 494-495 and 606-607: delta is updated from iteration 2 on
NextDelta(f, i, path) ==
    IF i > 1 THEN Sub(path[Len(path)], path[Len(path) - 1]) ELSE f.delta

RewriteRows(path, row) == [k \in 1..(Len(path) + 1) |-> row]

\* llpath.loc[i, ...] = _ll and coefpath.loc[i, ...] = ...: i is a label the
\* frame does not have yet, so the row is added at its end
\* (lines 484-485, 599-601)
AppendRow(path, row) == Append(path, row)

WarmStartNone(f) == <<>>

\* beta=ccmodel['beta']: the solver starts from the beta of the fit before
\* (line 587)
WarmStart(f) == f.ccmodel.beta

IteratePosteriorFirst(f, ctl, d, logitx, ll) ==
    LET i == f.i + 1
        ccmodel == IF d.x = <<>> THEN f.ccmodel
                   ELSE IwlsLogit(logitx, f.post, WarmStart(f), FALSE)
        prob == IF d.x = <<>> THEN <<MeanPost(f.post)>>
                ELSE FittedProb(logitx, ccmodel)
        post == FamilyPosterior(ctl.family, d.y, prob, f.theta)
        theta == FamilyTheta(d.y, post)
        llpath == AppendRow(f.llpath, ll)
    IN [f EXCEPT !.i = i,
                 !.ccmodel = ccmodel,
                 !.prob = prob,
                 !.theta = theta,
                 !.post = post,
                 !.llpath = llpath,
                 !.coefpath = AppendRow(f.coefpath,
                                        [theta |-> theta, beta |-> ccmodel.beta]),
                 !.delta = NextDelta(f, i, llpath)]

\* One pass through the loop body, ll being the value of Family.loglik
\* (lines 472-495 and 584-607)
Iterate(f, ctl, d, logitx, ll) ==
    LET i == f.i + 1
        ccmodel == IF d.x = <<>> THEN f.ccmodel
                   ELSE IwlsLogit(logitx, f.post, WarmStart(f), FALSE)
        prob == IF d.x = <<>> THEN <<MeanPost(f.post)>>
                ELSE FittedProb(logitx, ccmodel)
        theta == FamilyTheta(d.y, f.post)
        post == FamilyPosterior(ctl.family, d.y, prob, theta)
        llpath == AppendRow(f.llpath, ll)
    IN [f EXCEPT !.i = i,
                 !.ccmodel = ccmodel,
                 !.prob = prob,
                 !.theta = theta,
                 !.post = post,
                 !.llpath = llpath,
                 !.coefpath = AppendRow(f.coefpath,
                                        [theta |-> theta, beta |-> ccmodel.beta]),
                 !.delta = NextDelta(f, i, llpath)]

\* the values Family.loglik can return for the state after the M- and E-step
LoglikValues(f, ctl, d, logitx) ==
    LET g == Iterate(f, ctl, d, logitx, NaN)
    IN IF LoglikArgsNaN(g.post, g.theta) THEN {NaN} ELSE LLValues

EMIterationCommitting ==
    /\ pc = "loop"
    /\ LoopCondition(fit, control)
    /\ ~MaxitBreak(fit, control)
    /\ fit.i < MaxIter
    /\ \E ll \in LoglikValues(fit, control, data, self.logitx) :
         IF IsNaN(ll) /\ RaisesOnNaN(HasConcomitant)
         THEN /\ fit' = [Iterate(fit, control, data, self.logitx, ll)
                           EXCEPT !.delta = fit.delta]
              /\ logged' = logged \cup {"likelihood_nan"}
              /\ pc' = "raised"
              /\ err' = "RuntimeError:nan"
         ELSE /\ fit' = Iterate(fit, control, data, self.logitx, ll)
              /\ logged' = logged
              /\ pc' = pc
              /\ err' = err
    /\ self' = [self EXCEPT !.optimizer = [iter |-> fit.i + 1]]
    /\ UNCHANGED <<args, frame, data, control, call>>

EMIteration ==
    /\ pc = "loop"
    /\ LoopCondition(fit, control)
    /\ ~MaxitBreak(fit, control)
    /\ fit.i < MaxIter
    /\ \E ll \in LoglikValues(fit, control, data, self.logitx) :
         IF IsNaN(ll) /\ RaisesOnNaN(HasConcomitant)
         THEN /\ fit' = [Iterate(fit, control, data, self.logitx, ll)
                           EXCEPT !.delta = fit.delta]
              /\ logged' = logged \cup {"likelihood_nan"}
              /\ pc' = "raised"
              /\ err' = "RuntimeError:nan"
         ELSE /\ fit' = Iterate(fit, control, data, self.logitx, ll)
              /\ logged' = logged
              /\ pc' = pc
              /\ err' = err
    /\ UNCHANGED <<args, frame, data, control, self, call>>

(* ------------------------- after the loop ------------------------------ *)
DropLast(s) == IF s = <<>> THEN <<>> ELSE SubSeq(s, 1, Len(s) - 1)

ConvergedAtExitAlways(f, ctl) == TRUE

\* converged stays True unless the loop is left by the break of the
\* iteration limit                                   (lines 459, 468-470)
ConvergedAtExit(f, ctl) == ~LoopCondition(f, ctl)

TruncateAlways(conv, path) == DropLast(path)

\* lines 498-500, 610-612: llpath.iloc[:-1] when converged
Truncate(conv, path) == IF conv THEN DropLast(path) ELSE path

\* coefpath.shape[1]                                       (lines 505, 617)
Edf(d) == Cardinality(ThetaKeys) + (IF d.x = <<>> THEN 0 ELSE 2)

\* -2 * ll + 2 * edf, on the grid
Aic(ll, edf) == IF ll.nan THEN NaN ELSE Num(2 * Scale * edf - 2 * ll.v)

\* np.log(n) in thousandths, for the numbers of observations of the model
LogMilli(n) ==
    CASE n = 1 -> 0 [] n = 2 -> 693 [] n = 3 -> 1099 [] n = 4 -> 1386
      [] n = 5 -> 1609 [] OTHER -> 1792

\* -2 * ll + np.log(len(y)) * edf, on the grid
Bic(ll, edf, n) ==
    IF ll.nan THEN NaN
    ELSE Num(RoundDiv(Scale * LogMilli(n) * edf, 1000) - 2 * ll.v)

ResultDictLastLoglik(f, ctl, d) ==
    LET conv == ConvergedAtExit(f, ctl)
        llpath == Truncate(conv, f.llpath)
        last == f.llpath[Len(f.llpath)]
    IN [prob |-> f.prob,
        post |-> f.post,
        theta |-> f.theta,
        loglik |-> llpath[Len(llpath)],
        edf |-> Edf(d),
        AIC |-> Aic(last, Edf(d)),
        BIC |-> Bic(last, Edf(d), Len(d.y)),
        ccmodel |-> f.ccmodel,
        loglikpath |-> llpath,
        coefpath |-> Truncate(conv, f.coefpath),
        converged |-> conv,
        iter |-> f.i]

\* the dict fdict                                     (lines 502-519, 614-631)
ResultDict(f, ctl, d) ==
    LET conv == ConvergedAtExit(f, ctl)
        llpath == Truncate(conv, f.llpath)
        ll == llpath[Len(llpath)]
    IN [prob |-> f.prob,
        post |-> f.post,
        theta |-> f.theta,
        loglik |-> ll,
        edf |-> Edf(d),
        AIC |-> Aic(ll, Edf(d)),
        BIC |-> Bic(ll, Edf(d), Len(d.y)),
        ccmodel |-> f.ccmodel,
        loglikpath |-> llpath,
        coefpath |-> Truncate(conv, f.coefpath),
        converged |-> conv,
        iter |-> f.i]

\* The loop is left, by its condition or by the break; the traces are cut
\* and self.optimizer is assigned.  llpath.iloc[-1] of an empty trace raises.
LeaveLoop ==
    /\ pc = "loop"
    /\ ~LoopCondition(fit, control) \/ MaxitBreak(fit, control)
    /\ fit' = [fit EXCEPT !.converged = ConvergedAtExit(fit, control)]
    /\ IF Truncate(ConvergedAtExit(fit, control), fit.llpath) = <<>>
       THEN /\ pc' = "raised"
            /\ err' = "IndexError:llpath"
            /\ self' = self
       ELSE /\ pc' = "fitted"
            /\ err' = err
            /\ self' = [self EXCEPT !.optimizer = ResultDict(fit, control, data)]
    /\ UNCHANGED <<args, frame, data, logged, control, call>>

\* func.destandardized_coefficients(coef, logitx): coefficients of a fit on
\* the standardized design are brought to the units of the data; applied to
\* coefficients that are in those units already it rescales them once more
Destandardized(coef) ==
    [coef EXCEPT !.units = IF coef.units = "standardized" THEN "original"
                           ELSE "rescaled",
                 !.destandardized = TRUE]

ConcomitantCoefAlways(ccmodel, logitx) ==
    IF ccmodel = NoCcmodel THEN NoCoef
    ELSE Destandardized([beta |-> ccmodel.beta, units |-> ccmodel.units,
                         destandardized |-> FALSE])

\* lines 348-356: the coefficients of the concomitant model, None without
ConcomitantCoef(ccmodel, logitx) ==
    IF ccmodel = NoCcmodel THEN NoCoef
    ELSE IF logitx.is_standardized
         THEN Destandardized([beta |-> ccmodel.beta, units |-> ccmodel.units,
                              destandardized |-> FALSE])
    ELSE [beta |-> ccmodel.beta, units |-> ccmodel.units,
          destandardized |-> FALSE]

\* position of row j of the regular index among the rows that are taken
TakeRank(index, j) == Cardinality({i \in IdxTake(index) : i <= j})

ProbFrameNoBad(index, post) ==
    [j \in 1..Len(index) |->
       IF j \in IdxTake(index)
       THEN [prob |-> post[TakeRank(index, j)], flag |-> Num(Scale)]
       ELSE [prob |-> NaN, flag |-> NaN]]

\* lines 414-420: NaN in both columns, then the posterior and flag 1 for
\* the rows of idx_take, then 0 in both columns for the rows the filter
\* calls bad
ProbFrame(index, post) ==
    [j \in 1..Len(index) |->
       IF j \in FoehnixFilter(index).bad
       THEN [prob |-> Num(0), flag |-> Num(0)]
       ELSE IF j \in IdxTake(index)
            THEN [prob |-> post[TakeRank(index, j)], flag |-> Num(Scale)]
       ELSE [prob |-> NaN, flag |-> NaN]]

\* lines 345-426: warning after a single iteration, attributes stored
Finish ==
    /\ pc = "fitted"
    /\ pc' = "done"
    /\ logged' = logged \cup
                 (IF self.optimizer.iter = 1 THEN {"one_iteration"} ELSE {})
    /\ self' = [self EXCEPT !.stored = TRUE,
                            !.coef = self.optimizer.theta,
                            !.concomitants =
                                ConcomitantCoef(self.optimizer.ccmodel, self.logitx),
                            !.switch = args.switch,
                            !.inflated = Len(self.index) - Len(frame.times),
                            !.predictions = NoPredictions,
                            !.mu_se = "set",
                            !.prob = ProbFrame(self.index, self.optimizer.post)]
    /\ UNCHANGED <<args, frame, data, err, control, fit, call>>

(* ------------------------------ predict -------------------------------- *)
\* values of the argument returntype
ReturnTypes == {"response", "all", "other"}

ReturnTypeOkAny(rt) == TRUE

\* line 672
ReturnTypeOk(rt) == rt \in {"response", "all"}

\* newdata = None (line 648)
NoNewdata ==
    [given |-> FALSE, kinds |-> <<>>, y |-> <<>>, x |-> <<>>, columns |-> {}]

\* the kinds of the rows of a frame of newdata, in turn
NewdataKind(k) ==
    IF k % 4 = 1 THEN "take" ELSE IF k % 4 = 2 THEN "bad"
    ELSE IF k % 4 = 3 THEN "ugly" ELSE "nan"

\* a frame of n rows passed as newdata: row k with its kind, a predictor
\* value and a covariate of 0 or 1
NewdataFrame(n, cols) ==
    [given |-> TRUE,
     kinds |-> [k \in 1..n |-> NewdataKind(k)],
     y |-> [k \in 1..n |-> (k - 1) % (YMax + 1)],
     x |-> [k \in 1..n |-> k % 2],
     columns |-> cols]

\* frames passed as newdata: one row, NewLen rows, one without the columns
NewdataValues ==
    {NewdataFrame(1, {"predictor", "concomitant"}),
     NewdataFrame(NewLen, {"predictor", "concomitant"}),
     NewdataFrame(1, {})}

\* the index of the frame the prediction is made on: that of newdata, or
\* that of the copy of self.data                            (lines 676-677)
PredictIndex(s, nd) == IF nd.given THEN nd.kinds ELSE s.index

\* the predictor value of row j of that frame                (line 692)
PredictY(s, d, nd, j) ==
    IF nd.given THEN nd.y[j] ELSE d.y[TakeRank(s.index, j)]

\* lines 679-689: the prior of row j, the mean of optimizer['prob'] without
\* concomitants and else the fitted probability of the concomitant
\* coefficients for the covariate of the row
PredictPrior(s, d, nd, j) ==
    IF d.x = <<>> THEN s.optimizer.prob[1]
    ELSE IF nd.given THEN s.concomitants.beta[nd.x[j] + 1]
    ELSE s.concomitants.beta[d.x[TakeRank(s.index, j)] + 1]

\* the exception of predict, or "none": the test of returntype (672-673),
\* then the columns of the concomitants and of the predictor are read from
\* newdata (686, 692), which raises a KeyError for a column it has not
PredictError(d, nd, rt) ==
    IF ~ReturnTypeOk(rt) THEN "ValueError:returntype"
    ELSE IF nd.given /\ (\/ d.x # <<>> /\ "concomitant" \notin nd.columns
                         \/ "predictor" \notin nd.columns)
         THEN "KeyError:newdata"
    ELSE "none"

PredictionsUnmasked(s, ctl, d, nd, rt) ==
    LET index == PredictIndex(s, nd)
        post(j) == IF index[j] = "take"
                   THEN PosteriorAt(ctl.family, PredictY(s, d, nd, j),
                                    PredictPrior(s, d, nd, j), s.coef)
                   ELSE NaN
    IN [columns |-> {"prob", "flag"} \cup
                    (IF rt = "all" THEN {"density1", "density2", "ccmodel"}
                     ELSE {}),
        rows |-> [j \in 1..Len(index) |->
                    [prob |-> post(j), flag |-> Num(Scale)]]]

\* lines 676-717: the frame resp over the index of newdata, or of self.data
\* with newdata = None.  Only the rows of kind take have a posterior that is
\* no NaN; the rows the filter calls ugly get NaN, those it calls bad get 0.
\* With returntype 'all' the frame has three more columns.
Predictions(s, ctl, d, nd, rt) ==
    LET index == PredictIndex(s, nd)
        flt == FoehnixFilter(index)
        post(j) == IF index[j] = "take"
                   THEN PosteriorAt(ctl.family, PredictY(s, d, nd, j),
                                    PredictPrior(s, d, nd, j), s.coef)
                   ELSE NaN
    IN [columns |-> {"prob", "flag"} \cup
                    (IF rt = "all" THEN {"density1", "density2", "ccmodel"}
                     ELSE {}),
        rows |-> [j \in 1..Len(index) |->
                    IF j \in flt.bad THEN [prob |-> Num(0), flag |-> Num(0)]
                    ELSE IF j \in flt.ugly THEN [prob |-> NaN, flag |-> NaN]
                    ELSE [prob |-> post(j), flag |-> Num(Scale)]]]

\* predict(newdata=nd, returntype=rt) on the fitted model
Predict ==
    /\ pc = "done"
    /\ \E rt \in ReturnTypes, nd \in {NoNewdata} \cup NewdataValues :
         /\ call' = [method |-> "predict", returntype |-> rt, newdata |-> nd,
                     which |-> NoWhich, raised |-> PredictError(data, nd, rt)]
         /\ self' = IF PredictError(data, nd, rt) = "none"
                    THEN [self EXCEPT !.predictions =
                                        Predictions(self, control, data, nd, rt)]
                    ELSE self
    /\ UNCHANGED <<args, frame, data, pc, err, logged, control, fit>>

(* -------------------------------- plot --------------------------------- *)
\* the names plot knows                                    (lines 864-876)
PlotNames ==
    {"loglik", "loglikcontribution", "coef", "hist", "timeseries", "image"}

\* values of the argument which: a name, a name plot does not know, a list
\* of both, and a value that is neither a str nor a list
WhichValues ==
    {[kind |-> "str", names |-> <<"loglik">>],
     [kind |-> "str", names |-> <<"foo">>],
     [kind |-> "list", names |-> <<"coef", "foo">>],
     [kind |-> "other", names |-> <<>>]}

\* lines 858-861
PlotError(w) ==
    IF w.kind \notin {"str", "list"} THEN "ValueError:which" ELSE "none"

\* lines 879-880: the message for a name that is skipped
PlotLogged(w) ==
    IF PlotError(w) = "none" /\ \E k \in 1..Len(w.names) : w.names[k] \notin PlotNames
    THEN {"plot_skipping"} ELSE {}

\* plot(which) on the fitted model: the plotting functions draw and leave
\* the model as it is
Plot ==
    /\ pc = "done"
    /\ \E w \in WhichValues :
         /\ call' = [method |-> "plot", returntype |-> "none",
                     newdata |-> NoNewdata, which |-> w, raised |-> PlotError(w)]
         /\ logged' = logged \cup PlotLogged(w)
    /\ UNCHANGED <<args, frame, data, pc, err, control, self, fit>>

(* --------------------------- specification ----------------------------- *)
\* Control's defaults (lines 25-27) for the limits, truncated, standardize
\* and verbose; a short iteration limit and tolerance 0; no Control object
\* is passed (control=None, line 175), so control_switch is not used
DefaultArgs ==
    [control |-> "None", control_switch |-> "False",
     family |-> "gaussian", switch |-> "False", left |-> NegInf,
     right |-> PosInf, truncated |-> FALSE, standardize |-> TRUE,
     force_inflate |-> FALSE,
     maxit |-> [kind |-> "int", vals |-> <<Fin(1)>>],
     tol |-> [kind |-> "float", vals |-> <<0>>], verbose |-> "True"]

\* configurations that reach the fit
FitArgs ==
    {[DefaultArgs EXCEPT !.switch = sw, !.family = fam, !.maxit = mx, !.tol = tl] :
       sw \in {"True", "False"},
       fam \in {"gaussian", "logistic", "FamilyObject"},
       mx \in {[kind |-> "int", vals |-> <<Fin(k)>>] : k \in 0..MaxitMax},
       tl \in {[kind |-> "float", vals |-> <<t>>] : t \in {0, 1, Scale}}}

\* the defaults with one argument changed
OneOffArgs ==
    {[DefaultArgs EXCEPT !.switch = v] : v \in SwitchValues}
    \cup {[DefaultArgs EXCEPT !.verbose = v] : v \in VerboseValues}
    \cup {[DefaultArgs EXCEPT !.family = v] : v \in FamilyValues}
    \cup {[DefaultArgs EXCEPT !.maxit = v] : v \in MaxitValues}
    \cup {[DefaultArgs EXCEPT !.tol = v] : v \in TolValues}
    \cup {[DefaultArgs EXCEPT !.standardize = v] : v \in BOOLEAN}
    \cup {[DefaultArgs EXCEPT !.force_inflate = v] : v \in BOOLEAN}
    \cup {[DefaultArgs EXCEPT !.left = l, !.right = r, !.truncated = t] :
            l \in ExtValues, r \in ExtValues, t \in BOOLEAN}
    \cup {[DefaultArgs EXCEPT !.control = "Control", !.control_switch = cs,
                              !.switch = sw] :
            cs \in {"True", "False"}, sw \in {"True", "False"}}

\* the retained observations: YLen predictor values in ascending order, and
\* no concomitant or one covariate that steps from 0 to 1 after c
\* observations
DataValues ==
    [y : {s \in [1..YLen -> 0..YMax] : \A k \in 1..(YLen - 1) : s[k] <= s[k + 1]},
     x : {<<>>} \cup {[k \in 1..YLen |-> IF k <= c THEN 0 ELSE 1] :
                        c \in 0..(YLen - 1)}]

\* the frame of YLen rows with a regular index, without NaN or filtered
\* rows, that has the columns of the predictor and of the concomitant
RegularFrame ==
    [times |-> [k \in 1..YLen |-> k - 1],
     kinds |-> [k \in 1..YLen |-> "take"],
     columns |-> {"predictor", "concomitant"},
     index_type |-> "datetime"]

InitWith(argset) ==
    /\ args \in argset
    /\ frame = RegularFrame
    /\ data \in DataValues
    /\ pc = "start"
    /\ err = "none"
    /\ logged = {}
    /\ control = NoControl
    /\ self = NoSelf
    /\ fit = NoFit
    /\ call = NoCall

Init == InitWith(FitArgs \cup OneOffArgs)

Next ==
    \/ Control__init__
    \/ PrepareData
    \/ FitInit
    \/ EMIteration
    \/ LeaveLoop
    \/ Finish

\* the call Foehnix(...), for every configuration on the regular frame
Spec == Init /\ [][Next]_vars

(* ------------------ specification of the data frames ------------------- *)
\* the default configuration, with and without force_inflate, and with a
\* truncation that has the smallest predictor value below left or, for the
\* longer series, the largest above right
FrameArgs ==
    {[DefaultArgs EXCEPT !.force_inflate = f] : f \in BOOLEAN}
    \cup {[DefaultArgs EXCEPT !.truncated = TRUE, !.left = Fin(1)],
          [DefaultArgs EXCEPT !.truncated = TRUE, !.left = Fin(0),
                              !.right = Fin(BoundMax)]}

\* strictly increasing timestamps that start at 0
IncreasingTimes ==
    {t \in [1..YLen -> 0..TMax] :
       t[1] = 0 /\ \A k \in 1..(YLen - 1) : t[k] < t[k + 1]}

\* frames of YLen rows: every index of increasing timestamps with every
\* kind of rows; the regular frame with a column missing; one frame whose
\* index decreases; frames whose index holds date strings, not timestamps
FrameValues ==
    {[times |-> t, kinds |-> kd, columns |-> {"predictor", "concomitant"},
      index_type |-> "datetime"] :
       t \in IncreasingTimes, kd \in [1..YLen -> RowKinds]}
    \cup {[RegularFrame EXCEPT !.columns = c] :
            c \in SUBSET {"predictor", "concomitant"}}
    \cup {[RegularFrame EXCEPT !.times = [k \in 1..YLen |-> YLen - k]]}
    \cup {[RegularFrame EXCEPT !.index_type = "object", !.columns = c,
                               !.times = t, !.kinds = kd] :
            c \in {{"predictor", "concomitant"}, {"concomitant"}},
            t \in {[k \in 1..YLen |-> k - 1], [k \in 1..YLen |-> 1 - k],
                   [k \in 1..YLen |-> IF k = YLen THEN k ELSE k - 1]},
            kd \in {[k \in 1..YLen |-> "take"],
                    [k \in 1..YLen |-> IF k = 2 THEN "bad" ELSE "take"]}}

\* the number of rows that are taken once the index is regular
TakeCount(fr) ==
    IF IsMonotonic(fr.times) THEN Cardinality(IdxTake(Asfreq(fr)))
    ELSE Len(fr.times)

\* the values of n rows that are taken: the predictor increasing or
\* constant, no concomitant, a covariate of 0 and 1 or a constant one
FrameData(n) ==
    [y : {[k \in 1..n |-> IF k - 1 <= YMax THEN k - 1 ELSE YMax],
          [k \in 1..n |-> 0]},
     x : {<<>>, [k \in 1..n |-> IF k <= 1 THEN 0 ELSE 1], [k \in 1..n |-> 0]}]

InitFrame ==
    /\ args \in FrameArgs
    /\ frame \in FrameValues
    /\ data \in FrameData(TakeCount(frame))
    /\ pc = "start"
    /\ err = "none"
    /\ logged = {}
    /\ control = NoControl
    /\ self = NoSelf
    /\ fit = NoFit
    /\ call = NoCall

\* the call Foehnix(...) on every frame
SpecFrame == InitFrame /\ [][Next]_vars

\* frames for the calls that follow the fit: a regular index and one with a
\* gap, a first row that is taken and every kind of rows after it
PredictFrames ==
    {[RegularFrame EXCEPT !.times = t, !.kinds = kd] :
       t \in {[k \in 1..YLen |-> k - 1],
              [k \in 1..YLen |-> IF k = YLen THEN k ELSE k - 1]},
       kd \in {f \in [1..YLen -> RowKinds] : f[1] = "take"}}

InitPredict ==
    /\ args = DefaultArgs
    /\ frame \in PredictFrames
    /\ data \in FrameData(TakeCount(frame))
    /\ pc = "start"
    /\ err = "none"
    /\ logged = {}
    /\ control = NoControl
    /\ self = NoSelf
    /\ fit = NoFit
    /\ call = NoCall

\* the call Foehnix(...) and calls of predict and plot on the model it
\* returns
NextPredict ==
    \/ Next
    \/ Predict
    \/ Plot

SpecPredict == InitPredict /\ [][NextPredict]_vars

(* ======================== properties of the fit ======================== *)
\* the fit function has returned: self.optimizer holds its result
Returned == pc \in {"fitted", "done"}

\* ll_full[j] - ll_full[j-1] of the trace as the loop wrote it
DeltaOf(j) == Sub(fit.llpath[j], fit.llpath[j - 1])

\* the value the loop condition sees after iteration n: 1 before iteration 2
TestValue(n) == IF n >= 2 THEN DeltaOf(n) ELSE Num(Scale)

TolNum == Num(control.tol_em)

TraceHasNaN == \E k \in 1..Len(fit.llpath) : IsNaN(fit.llpath[k])

\* C1 as stated: a fit ends as Converged at the first iteration i >= 2 at
\* which ll_full[i] - ll_full[i-1] < tol_em (traces without NaN).
C1_ConvergedAtFirstBelowTol ==
    (Returned /\ self.optimizer.converged /\ ~TraceHasNaN) =>
        LET n == self.optimizer.iter
        IN /\ n >= 2
           /\ DeltaOf(n).v < control.tol_em
           /\ \A j \in 2..(n - 1) : ~(DeltaOf(j).v < control.tol_em)

\* C1 amended: in both fit variants the loop goes on only while
\* ll_full[i] - ll_full[i-1] > tol_em, and a fit ends as Converged exactly
\* when that test fails after its last iteration: the difference is smaller
\* than tol_em, equal to it, or NaN.  A result that is Converged has
\* iter >= 2; with tol_em >= 1 no iteration runs and no result exists.
C1_ConvergedAtFirstNotAboveTol ==
    /\ pc \in {"loop", "fitted", "done", "raised"} =>
         \A j \in 2..(fit.i - 1) : Gt(DeltaOf(j), TolNum)
    /\ Returned =>
         /\ self.optimizer.converged = ~Gt(TestValue(self.optimizer.iter), TolNum)
         /\ self.optimizer.converged => self.optimizer.iter >= 2
    /\ (pc = "raised" /\ err = "IndexError:llpath") =>
         fit.i = 0 /\ control.tol_em >= Scale

\* a fit ended as Converged by an iteration whose log-likelihood decreased
C1_Witness ==
    /\ Returned
    /\ self.optimizer.converged
    /\ self.optimizer.iter >= 2
    /\ ~TraceHasNaN
    /\ DeltaOf(self.optimizer.iter).v < 0

\* C2: a fit that has run maxit_em >= 1 iterations with the loop test
\* delta > tol_em still true ends with converged = False, iter = maxit_em,
\* all maxit_em entries of llpath and coefpath, and the loglik of iteration
\* maxit_em; if the test fails at iteration maxit_em it ends as Converged.
\* A result that is not Converged comes from the limit only.
C2_IterationLimitReached ==
    Returned =>
        LET r == self.optimizer
        IN /\ (r.iter = control.maxit_em /\ Gt(TestValue(r.iter), TolNum)) =>
                /\ ~r.converged
                /\ control.maxit_em >= 1
                /\ Len(r.loglikpath) = control.maxit_em
                /\ Len(r.coefpath) = control.maxit_em
                /\ r.loglikpath = fit.llpath
                /\ r.coefpath = fit.coefpath
                /\ r.loglik = fit.llpath[control.maxit_em]
           /\ (r.iter = control.maxit_em /\ ~Gt(TestValue(r.iter), TolNum)) =>
                r.converged
           /\ ~r.converged => (r.iter = control.maxit_em /\ r.iter >= 1)

\* a fit of more than one iteration that was cut by the limit
C2_Witness ==
    /\ Returned
    /\ ~self.optimizer.converged
    /\ self.optimizer.iter = control.maxit_em
    /\ self.optimizer.iter >= 2

\* C3 as stated: a fit whose trace contains a NaN log-likelihood never
\* ends as Converged or IterationLimitReached (no result is returned).
C3_NaNIsFatal == TraceHasNaN => ~Returned

\* C4: the last entry of llpath and of coefpath is removed iff the loop
\* ended by convergence: a converged result holds the first iter-1 entries,
\* an iteration-limit result all iter entries, and loglik is the last
\* remaining entry of llpath.
C4_TraceTruncation ==
    Returned =>
        LET r == self.optimizer
            kept == IF r.converged THEN r.iter - 1 ELSE r.iter
        IN /\ Len(fit.llpath) = r.iter
           /\ Len(fit.coefpath) = r.iter
           /\ r.loglikpath = SubSeq(fit.llpath, 1, kept)
           /\ r.coefpath = SubSeq(fit.coefpath, 1, kept)
           /\ kept >= 1
           /\ r.loglik = r.loglikpath[kept]

\* a converged result whose dropped entry differs from the reported loglik
C4_Witness ==
    /\ Returned
    /\ self.optimizer.converged
    /\ self.optimizer.loglik # fit.llpath[Len(fit.llpath)]

\* C5 as stated: a fit with maxit_em = 1 returns converged = False, iter = 1
\* and the theta computed in init mode from the hard split z.
C5_OneIterationKeepsInitialTheta ==
    (Returned /\ control.maxit_em = 1) =>
        /\ ~self.optimizer.converged
        /\ self.optimizer.iter = 1
        /\ self.optimizer.theta
             = FamilyTheta(data.y, AsWeights(HardSplit(control.switch, data.y)))

ResultKeys ==
    {"prob", "post", "theta", "loglik", "edf", "AIC", "BIC", "ccmodel",
     "loglikpath", "coefpath", "converged", "iter"}

\* C6: reaching the iteration limit is not an error.  From the loop at the
\* limit with the test delta > tol_em still true, the fit function returns
\* the complete result with converged = False; and every returned result,
\* also one with iter = 1, is stored by Foehnix.__init__, which for iter = 1
\* logs a warning and raises nothing.
C6_LimitIsNotAnError ==
    [][/\ (pc = "loop" /\ MaxitBreak(fit, control) /\ LoopCondition(fit, control)) =>
            /\ pc' = "fitted"
            /\ err' = "none"
            /\ DOMAIN self'.optimizer = ResultKeys
            /\ ~self'.optimizer.converged
            /\ self'.optimizer.iter = control.maxit_em
            /\ Len(self'.optimizer.post) = Len(data.y)
       /\ pc = "fitted" =>
            /\ pc' = "done"
            /\ err' = "none"
            /\ self'.stored
            /\ self'.optimizer = self.optimizer
            /\ (self.optimizer.iter = 1) = ("one_iteration" \in logged')]_vars

\* a fit stopped after one iteration has been stored with its warning
C6_Witness ==
    /\ pc = "done"
    /\ self.stored
    /\ self.optimizer.iter = 1
    /\ ~self.optimizer.converged
    /\ "one_iteration" \in logged

ControlBuilt == control # NoControl

\* C7: with maxit_em = 0 the loop has no limit: the break of the limit is
\* never taken, so the loop is left by its condition only and every result
\* is Converged; the message about the disabled limit is logged as soon as the
\* Control object exists, before any step of the fit (and likewise for
\* maxit_iwls = 0).
C7_NoLimitWhenMaxitZero ==
    ControlBuilt =>
        /\ control.maxit_em = 0 =>
             /\ "maxit_em_off" \in logged
             /\ fit.converged
             /\ Returned => self.optimizer.converged
             /\ ~MaxitBreak(fit, control)
        /\ control.maxit_iwls = 0 => "maxit_iwls_off" \in logged

\* with maxit_em = 0 the loop is still iterating after MaxIter iterations
C7_Witness ==
    /\ pc = "loop"
    /\ control.maxit_em = 0
    /\ "maxit_em_off" \in logged
    /\ fit.i = MaxIter
    /\ LoopCondition(fit, control)

\* the errors raised by Control.__init__
ConfigErrors ==
    {"ValueError:switch", "ValueError:verbose", "ValueError:limits",
     "ValueError:family", "TypeError:maxit", "ValueError:maxit",
     "ValueError:tol"}

\* C8: every configuration error is raised while the Control object is
\* built, before the data is inspected, copied or fitted: when such an
\* error has been raised nothing of the data stage or the fit has run, and
\* the data is copied only after Control.__init__ has returned.
C8_ConfigErrorsBeforeData ==
    /\ err \in ConfigErrors =>
         /\ pc = "raised"
         /\ ~self.data_copied
         /\ self = NoSelf
         /\ fit = NoFit
    /\ self.data_copied => (ControlError(args) = "none" /\ pc # "start")

\* a configuration error has been raised
C8_Witness == pc = "raised" /\ err = "ValueError:tol" /\ ~self.data_copied

\* C9 as stated: every pair of limits with left >= right, finite or
\* infinite, makes Control.__init__ raise the ValueError of the limits.
C9_LimitsRejected ==
    (pc # "start" /\ IsBool(args.switch) /\ VerboseOk(args.verbose)
       /\ GeExt(args.left, args.right)) =>
        (pc = "raised" /\ err = "ValueError:limits")

\* C10 as stated: a Control built with a family name or with a Family
\* object carries that family, and the fit uses it; every other family
\* value raises the ValueError of the family.
C10_ControlCarriesFamily ==
    /\ (ControlBuilt /\ args.family \in {"gaussian", "logistic", "FamilyObject"}) =>
         /\ control.family = args.family
         /\ err # "AttributeError:family"
    /\ (pc # "start" /\ ControlError(args) \in {"ValueError:family", "none"}
          /\ args.family \notin {"gaussian", "logistic", "FamilyObject"}) =>
         err = "ValueError:family"

(* ===================== properties of the configuration ================= *)
\* the checks of Control.__init__ that come before maxit have passed
ReachedMaxitCheck ==
    /\ pc # "start"
    /\ ControlError(args) \notin {"ValueError:switch", "ValueError:verbose",
                                  "ValueError:limits", "ValueError:family"}

\* C11 as stated: a single value (an int for maxit, a float for tol) is used
\* for the EM algorithm and for the IWLS solver alike, a vector of length 2
\* (of finite numbers for maxit) gives the EM value by its first and the
\* IWLS value by its second element, and every other input raises a
\* ValueError.
C11_SingleOrPairElseValueError ==
    ReachedMaxitCheck =>
        LET mx == args.maxit
            tl == args.tol
            mxSingle == mx.kind = "int"
            mxPair == /\ mx.kind = "list"
                      /\ Len(mx.vals) = 2
                      /\ \A k \in 1..2 : IsFinite(mx.vals[k])
            tlSingle == tl.kind = "float"
            tlPair == tl.kind = "list" /\ Len(tl.vals) = 2
        IN /\ ~(mxSingle \/ mxPair) =>
                (pc = "raised" /\ err = "ValueError:maxit")
           /\ ((mxSingle \/ mxPair) /\ ~(tlSingle \/ tlPair)) =>
                (pc = "raised" /\ err = "ValueError:tol")
           /\ ((mxSingle \/ mxPair) /\ (tlSingle \/ tlPair)) =>
                /\ err \notin ConfigErrors
                /\ control.maxit_em = mx.vals[1].v
                /\ control.maxit_iwls = mx.vals[Len(mx.vals)].v
                /\ control.tol_em = tl.vals[1]
                /\ control.tol_iwls = tl.vals[Len(tl.vals)]

(* ===================== properties of the data stage ==================== *)
\* the data errors of Foehnix.__init__: a column is missing, no observation
\* is left, a column is constant, the predictor is outside the truncation
DataErrors ==
    {"ValueError:predictor", "ValueError:concomitant", "RuntimeError:nodata",
     "RuntimeError:constant", "ValueError:truncation"}

\* the fit function has been entered (lines 340, 343), so that it has
\* assigned a local, or is the next thing to happen
FitEntered == pc \in {"fit", "loop", "fitted", "done"} \/ fit # NoFit

\* the fit function has got past its first call of Family.theta (lines 447,
\* 552): the locals the loop works on exist
LoopReached == fit.z # <<>> /\ err # "AttributeError:family"

\* C12: every data error is raised before the first call of Family.theta or
\* of the IWLS solver: when one has been raised the locals of the fit have
\* never been assigned, and the fit is entered only with all columns in the
\* frame, at least one observation, no constant column and the predictor
\* inside the truncation.  In particular, observations that are all
\* identical raise the constant-column error and not one EM iteration runs.
C12_DataErrorsBeforeFit ==
    /\ err \in DataErrors => (pc = "raised" /\ fit = NoFit /\ fit.i = 0)
    /\ FitEntered =>
         /\ "predictor" \in frame.columns
         /\ HasConcomitant => "concomitant" \in frame.columns
         /\ Len(data.y) > 0
         /\ ~IsConstant(data.y)
         /\ HasConcomitant => ~IsConstant(data.x)
         /\ ~OutsideTruncation(control, data.y)
    /\ (self.index # <<>> /\ Len(data.y) > 0 /\ IsConstant(data.y)) =>
         (pc = "raised" /\ err = "RuntimeError:constant" /\ fit.i = 0)
    /\ (self.index # <<>> /\ Len(data.y) > 0 /\ HasConcomitant
          /\ IsConstant(data.x)) =>
         (pc = "raised" /\ err = "RuntimeError:constant" /\ fit = NoFit)
    /\ (self.index # <<>> /\ Len(data.y) > 0 /\ ~IsConstant(data.y)
          /\ (HasConcomitant => ~IsConstant(data.x))
          /\ control.truncated
          /\ \E k \in 1..Len(data.y) :
                \/ LtExt(Fin(data.y[k]), control.left)
                \/ LtExt(control.right, Fin(data.y[k]))) =>
         (pc = "raised" /\ err = "ValueError:truncation" /\ fit = NoFit)
    /\ (self.index # <<>> /\ Len(data.y) = 0) =>
         (pc = "raised" /\ err = "RuntimeError:nodata" /\ fit = NoFit)
    /\ (pc \notin {"start", "control"} /\ ControlBuilt
          /\ ("predictor" \notin frame.columns
              \/ (HasConcomitant /\ "concomitant" \notin frame.columns))) =>
         (pc = "raised" /\ fit = NoFit
          /\ err \in {"ValueError:predictor", "ValueError:concomitant"})

\* with a concomitant, and neither column constant, a predictor value above
\* right has raised the truncation error before the fit
C12_Witness ==
    /\ pc = "raised"
    /\ err = "ValueError:truncation"
    /\ control.truncated
    /\ HasConcomitant
    /\ ~IsConstant(data.x)
    /\ ~IsConstant(data.y)
    /\ LtExt(control.right, Fin(SeqMax(data.y)))
    /\ fit = NoFit

\* the conditions that abort a fit: the data errors, an index that is not
\* increasing or inflates too much, a NaN log-likelihood
FatalErrors ==
    DataErrors \cup {"RuntimeError:monotonic", "RuntimeError:inflate",
                     "RuntimeError:nan"}

\* C13: when a fit is aborted by a data error or by a NaN log-likelihood
\* nothing is committed to the result: self.optimizer holds no fit result
\* and coef, prob and mu_se are not set, in the state of the abort and ever
\* after.
C13_NothingCommittedOnAbort ==
    err \in FatalErrors =>
        /\ pc = "raised"
        /\ self.optimizer = NoOptimizer
        /\ ~self.stored
        /\ self.coef = <<>>
        /\ self.concomitants = NoCoef
        /\ self.prob = <<>>
        /\ self.mu_se = "unset"

\* a fit aborted by a NaN log-likelihood after an iteration has run
C13_Witness ==
    /\ pc = "raised"
    /\ err = "RuntimeError:nan"
    /\ fit.i >= 1
    /\ self.optimizer = NoOptimizer
    /\ self.data_copied

(* ====================== properties of the result ======================= *)
\* C14: in every result edf is the number of keys of theta plus the number
\* of columns of the concomitant design (Intercept and covariate, none
\* without concomitants), AIC is -2 * loglik + 2 * edf and BIC is
\* -2 * loglik + ln(n) * edf, with the loglik of the same result, which is
\* the last entry of its loglikpath, and n the number of observations used.
C14_InformationCriteria ==
    Returned =>
        LET r == self.optimizer
            n == Cardinality(IdxTake(self.index))
            columns == IF HasConcomitant THEN Len(r.ccmodel.beta) ELSE 0
        IN /\ r.edf = Cardinality(DOMAIN r.theta) + columns
           /\ r.edf = IF HasConcomitant THEN 6 ELSE 4
           /\ n = Len(data.y)
           /\ r.loglik = r.loglikpath[Len(r.loglikpath)]
           /\ IsNaN(r.loglik) => (IsNaN(r.AIC) /\ IsNaN(r.BIC))
           /\ ~IsNaN(r.loglik) =>
                /\ r.AIC = Num(2 * Scale * r.edf - 2 * r.loglik.v)
                /\ r.BIC = Num(RoundDiv(Scale * LogMilli(n) * r.edf, 1000)
                               - 2 * r.loglik.v)

\* a converged fit with concomitants whose reported loglik, AIC and BIC are
\* not those of its last iteration
C14_Witness ==
    /\ Returned
    /\ HasConcomitant
    /\ self.optimizer.converged
    /\ self.optimizer.edf = 6
    /\ ~IsNaN(self.optimizer.AIC)
    /\ ~IsNaN(fit.llpath[Len(fit.llpath)])
    /\ self.optimizer.AIC # Aic(fit.llpath[Len(fit.llpath)], 6)

(* ===================== properties of an iteration ====================== *)
\* C15: an EM iteration starts only after the test of the loop and the test
\* of the limit have let it pass, and its steps depend on each other in this
\* order: the concomitant model is refitted on the post the iteration found
\* and gives the prior prob (without concomitants prob is the mean of that
\* post); Family.theta is fitted on that same post; Family.posterior is
\* computed from the new prob and the new theta; the log-likelihood of the
\* new state and the new coefficients are appended to the traces; delta for
\* the next test is taken from the trace.
C15_StepOrder ==
    [][(pc = "loop" /\ fit'.i # fit.i) =>
          /\ LoopCondition(fit, control)
          /\ ~MaxitBreak(fit, control)
          /\ fit'.i = fit.i + 1
          /\ fit'.ccmodel =
                IF HasConcomitant
                THEN IwlsLogit(self.logitx, fit.post, fit.ccmodel.beta, FALSE)
                ELSE NoCcmodel
          /\ fit'.prob =
                IF HasConcomitant THEN FittedProb(self.logitx, fit'.ccmodel)
                ELSE <<MeanPost(fit.post)>>
          /\ fit'.theta = FamilyTheta(data.y, fit.post)
          /\ fit'.post =
                FamilyPosterior(control.family, data.y, fit'.prob, fit'.theta)
          /\ Len(fit'.llpath) = fit'.i
          /\ SubSeq(fit'.llpath, 1, fit.i) = fit.llpath
          /\ LoglikArgsNaN(fit'.post, fit'.theta) => IsNaN(fit'.llpath[fit'.i])
          /\ fit'.coefpath =
                Append(fit.coefpath,
                       [theta |-> fit'.theta, beta |-> fit'.ccmodel.beta])
          /\ fit'.delta =
                IF fit'.i > 1 /\ pc' = "loop"
                THEN Sub(fit'.llpath[fit'.i], fit'.llpath[fit.i])
                ELSE fit.delta
          /\ pc' = "raised" =>
                (IsNaN(fit'.llpath[fit'.i]) /\ "likelihood_nan" \in logged')]_vars

\* an iteration has run and the loop holds a theta, fitted on the post the
\* iteration found, that differs from a fit on the post it has computed
C15_Witness ==
    /\ pc = "loop"
    /\ fit.i >= 1
    /\ ~ThetaHasNaN(fit.theta)
    /\ fit.theta # FamilyTheta(data.y, fit.post)

\* the concomitant model as unreg_fit fits it before the loop: on the hard
\* split z, without a beta to start from
SeedCcmodel == IwlsLogit(self.logitx, AsWeights(fit.z), <<>>, FALSE)

\* C16: with concomitants the IWLS model is fitted once on the hard split z
\* without warm start; the refit of iteration 1 starts from the beta of that
\* fit and the refit of every later iteration from the beta of the iteration
\* before; the ccmodel of the result is the one of the last iteration that
\* ran, also when the traces have lost the entry of that iteration.
C16_WarmStartChain ==
    (HasConcomitant /\ LoopReached) =>
        /\ fit.i = 0 => fit.ccmodel = SeedCcmodel
        /\ fit.i >= 1 =>
             /\ fit.ccmodel.start =
                   IF fit.i = 1 THEN SeedCcmodel.beta
                   ELSE fit.coefpath[fit.i - 1].beta
             /\ fit.ccmodel.beta = fit.coefpath[fit.i].beta
             /\ fit.ccmodel.start # <<>>
        /\ Returned =>
             /\ self.optimizer.iter = fit.i
             /\ fit.i >= 1
             /\ self.optimizer.ccmodel = fit.ccmodel

\* a result of two or more iterations whose last refit moved away from the
\* beta it started from
C16_Witness ==
    /\ Returned
    /\ HasConcomitant
    /\ self.optimizer.iter >= 2
    /\ self.optimizer.ccmodel.start = fit.coefpath[fit.i - 1].beta
    /\ self.optimizer.ccmodel.beta # SeedCcmodel.beta

(* =================== properties of the standardization ================= *)
\* C17: the design of the concomitant model is standardized by
\* Foehnix.__init__ exactly when control.standardize is True and by nothing
\* else: every call of the IWLS solver, the one before the loop and every
\* refit, is told standardize = False, so its coefficients are in the units
\* of the design it was given; the coefficients that are reported are
\* destandardized exactly when the design is flagged is_standardized, and so
\* are in the units of the data in both cases.
C17_StandardizedOnce ==
    /\ (HasConcomitant /\ pc \in {"fit", "loop", "fitted", "done"}) =>
         self.logitx.is_standardized = control.standardize
    /\ (HasConcomitant /\ LoopReached) =>
         /\ fit.ccmodel.standardize = FALSE
         /\ fit.ccmodel.units =
               IF self.logitx.is_standardized THEN "standardized" ELSE "original"
    /\ (HasConcomitant /\ pc = "done") =>
         /\ self.concomitants.destandardized = self.logitx.is_standardized
         /\ self.concomitants.units = "original"
         /\ self.concomitants.beta = self.optimizer.ccmodel.beta
    /\ (~HasConcomitant /\ pc = "done") => self.concomitants = NoCoef

\* a fit on a design that was not standardized has reported the
\* coefficients of its last refit as they are
C17_Witness ==
    /\ pc = "done"
    /\ HasConcomitant
    /\ ~control.standardize
    /\ ~self.logitx.is_standardized
    /\ ~self.concomitants.destandardized
    /\ self.optimizer.iter >= 1

(* ========================= properties of predict ======================= *)
\* C18: a call of predict with a returntype that is neither 'response' nor
\* 'all' raises the ValueError of the returntype whatever the state of the
\* model is, and changes nothing: self.predictions and every other
\* attribute, the data and the result of the fit are as before the call.  A
\* call with one of the two valid values does not raise it.
C18_InvalidReturntypeRaises ==
    [][/\ (call'.returntype \notin {"none", "response", "all"}) =>
            /\ call'.raised = "ValueError:returntype"
            /\ self' = self
            /\ self'.predictions = self.predictions
            /\ <<frame, data, control, fit, err, pc, logged>>'
                 = <<frame, data, control, fit, err, pc, logged>>
       /\ (call'.returntype \in {"response", "all"}) =>
            /\ call'.raised # "ValueError:returntype"
            /\ call'.raised = "none" =>
                 /\ {"prob", "flag"} \subseteq self'.predictions.columns
                 /\ Len(self'.predictions.rows)
                      = Len(PredictIndex(self, call'.newdata))]_vars

\* an invalid call has raised and the predictions of a call before it are
\* still there
C18_Witness ==
    /\ pc = "done"
    /\ call.returntype = "other"
    /\ call.raised = "ValueError:returntype"
    /\ self.predictions # NoPredictions
    /\ "density1" \in self.predictions.columns

(* ====================== properties of self.prob ======================== *)
\* C19: self.prob of a finished fit has one row for every timestamp of the
\* regular index, and every row is in one of three states: prob and flag
\* NaN for a row that was not modelled (inserted, with NaN, or called ugly
\* by the filter); the posterior of its observation and flag 1 for a row
\* that was used in the fit; prob 0 and flag 0 for a row the filter calls
\* bad, which so never carries a posterior.  The rows with flag 1 are as
\* many as the observations of the fit.
C19_ProbFrameStates ==
    pc = "done" =>
        /\ Len(self.prob) = Inflated(frame.times)
        /\ Len(self.prob) = Len(self.index)
        /\ \A j \in 1..Len(self.prob) :
             LET row == self.prob[j]
                 kind == self.index[j]
             IN /\ kind = "take" =>
                     /\ row.flag = Num(Scale)
                     /\ row.prob = self.optimizer.post[TakeRank(self.index, j)]
                /\ kind = "bad" => (row.prob = Num(0) /\ row.flag = Num(0))
                /\ kind \in {"nan", "ugly", "gap"} =>
                     (IsNaN(row.prob) /\ IsNaN(row.flag))
                /\ \/ IsNaN(row.prob) /\ IsNaN(row.flag)
                   \/ row.flag = Num(Scale)
                   \/ row.prob = Num(0) /\ row.flag = Num(0)
        /\ Cardinality({j \in 1..Len(self.prob) : self.prob[j].flag = Num(Scale)})
             = Len(data.y)

\* a finished fit whose frame had an inserted row and a row the filter calls
\* bad next to the rows of the fit
C19_Witness ==
    /\ pc = "done"
    /\ \E j \in 1..Len(self.index) :
         self.index[j] = "gap" /\ IsNaN(self.prob[j].flag)
    /\ \E j \in 1..Len(self.index) :
         self.index[j] = "bad" /\ self.prob[j].flag = Num(0)
    /\ \E j \in 1..Len(self.index) :
         /\ self.index[j] = "take"
         /\ self.prob[j].flag = Num(Scale)
         /\ ~IsNaN(self.prob[j].prob)

(* ====================== properties of the inflation ==================== *)
\* the checks of the frame have been made: Foehnix.__init__ is past line 262
\* or has raised there
FrameChecked == control # NoControl /\ pc \notin {"start", "control"}

\* the frame reaches the test of the inflation: its columns are found and
\* its index is increasing
ReachesInflationTest ==
    /\ "predictor" \in frame.columns
    /\ HasConcomitant => "concomitant" \in frame.columns
    /\ IsMonotonic(frame.times)

\* C20: a frame whose regular index would have more than 2 times the rows
\* of the frame stops the fit with the RuntimeError of the inflation, before
\* the index is made regular, the filter is applied or the fit is entered,
\* unless force_inflate is True; with force_inflate True, and always when
\* the regular index has at most 2 times the rows, that error is not raised
\* and the fit goes on with the regular index of all the inserted rows.
C20_InflationStopsUnlessForced ==
    (FrameChecked /\ ReachesInflationTest) =>
        LET inflates == Inflated(frame.times) > 2 * Len(frame.times)
        IN /\ (inflates /\ ~control.force_inflate) =>
                /\ pc = "raised"
                /\ err = "RuntimeError:inflate"
                /\ "inflation" \in logged
                /\ self.index = <<>>
                /\ fit = NoFit
           /\ (~inflates \/ control.force_inflate) =>
                /\ err # "RuntimeError:inflate"
                /\ "inflation" \notin logged
                /\ Len(self.index) = Inflated(frame.times)
                /\ self.index = Asfreq(frame)
                /\ pc = "done" =>
                     self.inflated = Inflated(frame.times) - Len(frame.times)

\* a frame whose regular index has one row more than 2 times its rows has
\* stopped the fit
C20_Witness ==
    /\ pc = "raised"
    /\ err = "RuntimeError:inflate"
    /\ Inflated(frame.times) = 2 * Len(frame.times) + 1
    /\ ~control.force_inflate
    /\ self.data_copied

(* ======================= properties of the traces ====================== *)
\* C21: the traces are append-only.  After k iterations llpath and coefpath
\* hold k entries each, the entries of the iterations 1..k in this order;
\* an iteration adds one entry to each trace and leaves the entries of the
\* iterations before it as they are; the two traces have the same length in
\* the loop and in the result, whose traces are a prefix of those of the
\* loop.
C21_TracesAppendOnly ==
    [][/\ Len(fit.llpath) = fit.i
       /\ Len(fit.coefpath) = fit.i
       /\ fit'.i # fit.i =>
            /\ fit'.i = fit.i + 1
            /\ Len(fit'.llpath) = fit.i + 1
            /\ Len(fit'.coefpath) = fit.i + 1
            /\ SubSeq(fit'.llpath, 1, fit.i) = fit.llpath
            /\ SubSeq(fit'.coefpath, 1, fit.i) = fit.coefpath
            /\ fit'.coefpath[fit'.i].theta = fit'.theta
       /\ fit'.i = fit.i =>
            (fit'.llpath = fit.llpath /\ fit'.coefpath = fit.coefpath)
       /\ (pc' = "fitted" /\ pc = "loop") =>
            LET r == self'.optimizer
            IN /\ Len(r.loglikpath) = Len(r.coefpath)
               /\ r.loglikpath = SubSeq(fit.llpath, 1, Len(r.loglikpath))
               /\ r.coefpath = SubSeq(fit.coefpath, 1, Len(r.coefpath))]_vars

\* three iterations have run and the first entries of the traces differ
\* from the last ones
C21_Witness ==
    /\ pc = "loop"
    /\ fit.i = 3
    /\ Len(fit.llpath) = 3
    /\ fit.llpath[1] # fit.llpath[3]
    /\ fit.coefpath[1] # fit.coefpath[3]

\* C22: the initial hard split with switch=True is the exact complement of
\* the split with switch=False: for every observation k the split the fit
\* started from and the split of the same y under the other switch value
\* sum to 1, so no observation is in the foehn group under both settings.
C22_SplitsAreComplements ==
    pc = "loop" =>
        /\ fit.z = HardSplit(control.switch, data.y)
        /\ \A k \in 1..Len(data.y) :
              fit.z[k] = 1 - HardSplit(~control.switch, data.y)[k]

\* C23: for every iteration limit Control accepts other than 0, the EM loop
\* executes at most maxit_em iterations: once an iteration has run, the
\* number of iterations that have run does not exceed maxit_em, and a
\* returned result has iter <= maxit_em.
C23_AtMostMaxitIterations ==
    (ControlBuilt /\ control.maxit_em # 0) =>
        /\ (pc = "loop" /\ fit.i >= 1) => fit.i <= control.maxit_em
        /\ Returned => self.optimizer.iter <= control.maxit_em

\* C24: for every tolerance tol_em that Control accepts the EM loop runs at
\* least one iteration before it ends: the fit never leaves the loop with
\* iter = 0, the trace that remains after the truncation is not empty, and
\* the final loglik, AIC and BIC are defined (no error comes from reading
\* the last entry of the trace).
C24_AtLeastOneIteration ==
    /\ (pc \in {"fitted", "done", "raised"} /\ LoopReached) => fit.i >= 1
    /\ Returned => self.optimizer.loglikpath # <<>>
    /\ err # "IndexError:llpath"

\* C25: a result with converged = True always has iter >= 2, because the
\* log-likelihood difference is first evaluated in iteration 2 (after
\* iteration 1 the loop still tests the initial delta = 1); a result has
\* iter = 1 only if maxit_em = 1, and then converged = False.
C25_ConvergedNeedsTwoIterations ==
    /\ (pc = "loop" /\ fit.i <= 1) => fit.delta = Num(Scale)
    /\ Returned =>
         /\ self.optimizer.iter >= 1
         /\ self.optimizer.converged => self.optimizer.iter >= 2
         /\ self.optimizer.iter = 1 =>
              (control.maxit_em = 1 /\ ~self.optimizer.converged)

\* a fit returned after its only iteration, with the tolerance 0 and a
\* log-likelihood that as a difference would have ended the loop
C25_Witness ==
    /\ pc = "fitted"
    /\ self.optimizer.iter = 1
    /\ control.maxit_em = 1
    /\ ~self.optimizer.converged
    /\ ~Gt(fit.llpath[1], TolNum)

\* C26: in every returned result the reported loglik, and the AIC and BIC
\* derived from it, is the log-likelihood of the same EM iteration that
\* produced the returned theta, post and prob (iteration iter, the last one
\* that ran), for converged and for iteration-limit fits alike.
C26_ResultFromOneIteration ==
    Returned =>
        LET r == self.optimizer
        IN /\ r.theta = fit.coefpath[r.iter].theta
           /\ r.post = fit.post
           /\ r.prob = fit.prob
           /\ r.loglik = fit.llpath[r.iter]
           /\ r.AIC = Aic(fit.llpath[r.iter], r.edf)
           /\ r.BIC = Bic(fit.llpath[r.iter], r.edf, Len(data.y))

(* ======================== properties of the checks ===================== *)
\* observation k lies below left, above right
BelowLeft(k) == LtExt(Fin(data.y[k]), control.left)
AboveRight(k) == LtExt(control.right, Fin(data.y[k]))

\* C27: with truncated = True the fit starts only if every retained
\* predictor value lies within [left, right]: a value below left or above
\* right raises the ValueError of the truncation before the fit, values
\* equal to a bound are accepted, and with truncated = False (censoring) no
\* range check is applied.
C27_TruncationRangeChecked ==
    /\ (FitEntered /\ control.truncated) =>
         \A k \in 1..Len(data.y) : ~BelowLeft(k) /\ ~AboveRight(k)
    /\ (ControlBuilt /\ pc \notin {"start", "control"}
          /\ control.truncated
          /\ Len(data.y) > 0 /\ ~IsConstant(data.y)
          /\ (HasConcomitant => ~IsConstant(data.x))
          /\ FrameError(control, frame, HasConcomitant) = "none"
          /\ \E k \in 1..Len(data.y) : BelowLeft(k) \/ AboveRight(k)) =>
         (pc = "raised" /\ err = "ValueError:truncation" /\ fit = NoFit)
    /\ err = "ValueError:truncation" =>
         /\ control.truncated
         /\ \E k \in 1..Len(data.y) : BelowLeft(k) \/ AboveRight(k)
    /\ (ControlBuilt /\ pc \notin {"start", "control"}
          /\ ~control.truncated
          /\ Len(data.y) > 0 /\ ~IsConstant(data.y)
          /\ (HasConcomitant => ~IsConstant(data.x))
          /\ FrameError(control, frame, HasConcomitant) = "none") =>
         err \notin DataErrors

\* a truncated fit has started with an observation on the left bound and
\* another one on the right bound
C27_Witness ==
    /\ FitEntered
    /\ control.truncated
    /\ \E k \in 1..Len(data.y) : Fin(data.y[k]) = control.left
    /\ \E k \in 1..Len(data.y) : Fin(data.y[k]) = control.right

(* ====================== properties of the fitted model ================= *)
\* the value of a switch argument as a boolean
AsBool(sw) == sw = "True"

\* C28: the switch value stored on the fitted model (Foehnix.switch) always
\* equals the switch value that controlled the initial split of the fit
\* (control.switch), whether the Control object was built from the Foehnix
\* arguments or passed in by the caller.
C28_StoredSwitchIsControlSwitch ==
    pc = "done" =>
        /\ fit.z = HardSplit(control.switch, data.y)
        /\ IsBool(self.switch)
        /\ AsBool(self.switch) = control.switch

\* C29: a successful predict call writes only self.predictions.  Every
\* other attribute of the model, the data, the control object and the fit
\* result are as before the call; the frame of an earlier call is replaced
\* (the columns are those of this call's returntype); and in the stored
\* frame the rows the filter marks bad have prob = 0 and flag = 0, the rows
\* it marks ugly have NaN in both, and all other rows have flag = 1 and the
\* posterior as prob (NaN where the predictor is missing).  The frame is
\* over the index of newdata, or of self.data when newdata is None.
C29_PredictWritesPredictionsOnly ==
    [][(pc = "done" /\ call'.method = "predict" /\ call'.raised = "none") =>
         LET p == self'.predictions
             nd == call'.newdata
             index == IF nd.given THEN nd.kinds ELSE self.index
             flt == FoehnixFilter(index)
             valued == {j \in 1..Len(index) : index[j] = "take"}
         IN /\ self' = [self EXCEPT !.predictions = p]
            /\ <<frame, data, control, fit, err, pc, args, logged>>'
                 = <<frame, data, control, fit, err, pc, args, logged>>
            /\ p.columns = IF call'.returntype = "all"
                           THEN {"prob", "flag", "density1", "density2", "ccmodel"}
                           ELSE {"prob", "flag"}
            /\ Len(p.rows) = Len(index)
            /\ \A j \in 1..Len(index) :
                 /\ j \in flt.bad =>
                      (p.rows[j].prob = Num(0) /\ p.rows[j].flag = Num(0))
                 /\ j \in flt.ugly =>
                      (IsNaN(p.rows[j].prob) /\ IsNaN(p.rows[j].flag))
                 /\ j \in flt.good =>
                      /\ p.rows[j].flag = Num(Scale)
                      /\ j \in valued =>
                           p.rows[j].prob =
                             PosteriorAt(control.family,
                                         PredictY(self, data, nd, j),
                                         PredictPrior(self, data, nd, j),
                                         self.coef)
                      /\ j \notin valued => IsNaN(p.rows[j].prob)]_vars

\* predictions of returntype 'response' on a frame of newdata that has more
\* rows than self.data, among them a bad row, an ugly row and a row that is
\* flagged 1 with a posterior
C29_Witness ==
    /\ pc = "done"
    /\ call.method = "predict"
    /\ call.returntype = "response"
    /\ call.raised = "none"
    /\ call.newdata.given
    /\ self.predictions.columns = {"prob", "flag"}
    /\ Len(self.predictions.rows) = Len(call.newdata.kinds)
    /\ Len(self.predictions.rows) > Len(self.index)
    /\ \E j \in 1..Len(call.newdata.kinds) : call.newdata.kinds[j] = "bad"
    /\ \E j \in 1..Len(call.newdata.kinds) : call.newdata.kinds[j] = "ugly"
    /\ \E j \in 1..Len(call.newdata.kinds) :
         /\ self.predictions.rows[j].flag = Num(Scale)
         /\ ~IsNaN(self.predictions.rows[j].prob)

(* ===================== properties of the caller's data ================= *)
\* C30: fitting never modifies the data frame of the caller.  Foehnix works
\* on a deep copy: the conversion of the index to timestamps, the inflation
\* to a regular series and the filtering act on self.data only, and the
\* frame that was passed keeps its index, its rows and its columns in
\* every step, of a fit that succeeds and of one that raises.
C30_CallerFrameUntouched ==
    [][/\ frame' = frame
       /\ self'.data_copied => self'.index_type = "datetime"
       /\ (self'.index # <<>>) => Len(self'.index) = Inflated(frame.times)]_vars

\* a fit has finished on a copy whose index was converted and inflated and
\* holds a filtered row, while the frame passed still has its index of date
\* strings and its own rows
C30_Witness ==
    /\ pc = "done"
    /\ frame.index_type = "object"
    /\ self.index_type = "datetime"
    /\ Len(self.index) > Len(frame.times)
    /\ \E j \in 1..Len(self.index) : self.index[j] = "bad"

====
